---- MODULE Spec2Model ----
(***************************************************************************)
(* The Pulumi program __main__.py: a driver that reads two configuration   *)
(* values and declares a Docker network, three images, one volume and      *)
(* eight containers (Postgres, Redis, airflow-init and five long-running   *)
(* Airflow services).                                                      *)
(*                                                                         *)
(* Three parties move:                                                     *)
(*   - the driver, one statement of the program at a time (pc);            *)
(*   - the provisioning engine, which is handed a resource only once every *)
(*     resource it refers to (depends_on, or an Output among its inputs)   *)
(*     has been created, and then creates it or fails;                     *)
(*   - the container runtime, which runs airflow-init's bash script once   *)
(*     the container exists and applies its restart policy.                *)
(*                                                                         *)
(* The free names of the module (POSTGRES_PORT, s3_bucket, access_secrets) *)
(* are taken to be bound by the enclosing project; the bucket and the      *)
(* access key are resources of that project which the engine resolves.     *)
(* pulumi.config() is taken to yield the stack's configuration object.     *)
(***************************************************************************)
EXTENDS Integers, Sequences, FiniteSets, TLC

VARIABLES
    config,       \* the stack configuration: key -> value, or Absent
    pc,           \* index of the driver's next statement in Program
    halted,       \* the driver raised: "no", or the name of the error
    common_envs,  \* the shared environment list once line 117 has run
    args,         \* constructed resource -> the arguments it was given
    exports,      \* keys passed to pulumi.export so far
    created,      \* resources the engine has materialised
    failed,       \* resources whose creation / resolution failed
    initPc,       \* airflow-init: index of the next command of InitScript (0: not running)
    initLog,      \* airflow-init: commands run in the current run, in order
    status,       \* airflow-init: exit status of the last command run ($?)
    checkStatus,  \* airflow-init: exit status of `airflow db check` in this run, or NoStatus
    initExit,     \* airflow-init: exit status of the container process, or NoStatus
    restarts      \* airflow-init: restarts applied by the runtime

vars == <<config, pc, halted, common_envs, args, exports, created, failed,
          initPc, initLog, status, checkStatus, initExit, restarts>>

driverVars == <<config, pc, halted, common_envs, args, exports>>
engineVars == <<created, failed>>
initVars   == <<initPc, initLog, status, checkStatus, initExit, restarts>>

-----------------------------------------------------------------------------
(* Bounds *)

\* restarts of airflow-init the runtime is followed through
MaxRestarts == 1

Absent   == "<absent>"
NoStatus == "<none>"
NoSrc    == "<literal>"

\* values the operator may have set for the two configuration keys
RegionValues  == {Absent, "us-east-1", "eu-west-1"}
VersionValues == {Absent, "2.9.0"}

-----------------------------------------------------------------------------
(* Resources *)

\* resources handed to make_airflow_docker by the enclosing project
External == {"s3_bucket_obj", "s3_acces_key_obj"}

ApplicationContainers ==
    {"airflow_init", "airflow_webserver", "airflow_celery_worker",
     "airflow_scheduler", "airflow_triggerer", "airflow_flower"}

LongRunning == ApplicationContainers \ {"airflow_init"}

Containers == {"postgres_container", "redis_container"} \cup ApplicationContainers

Declared == {"network", "postgres_remote_image", "postgres_volume", "redis_image",
             "airflow_image"} \cup Containers

Resources == Declared \cup External

-----------------------------------------------------------------------------
(* Environment entries.  A literal is KEY=VALUE known to the driver; a     *)
(* deferred entry is output.apply(lambda v: f"KEY=<pre>{v}<post>"), known  *)
(* only once the resource `src` it reads has been created.                 *)

Lit(k, v) == [key |-> k, eq |-> TRUE, val |-> <<v>>, src |-> NoSrc]

Deferred(k, pre, s, post) == [key |-> k, eq |-> TRUE, val |-> <<pre, "{}", post>>, src |-> s]

\* a string without "=": the runtime reads all of it as the variable's name
Bare(k) == [key |-> k, eq |-> FALSE, val |-> <<>>, src |-> NoSrc]

\* the broker URL written with a fixed host instead of the Cache's name
CommonEnvsFixedBroker(aws_region) ==
    << Lit("AWS_REGION", aws_region),
       Deferred("S3_BUCKET_URL", "s3://", "s3_bucket_obj", ""),
       Deferred("AWS_ACCESS_KEY", "", "s3_acces_key_obj", ""),
       Deferred("AWS_SECRETS_TOKEN", "", "s3_acces_key_obj", ""),
       Lit("AIRFLOW__CORE__EXECUTOR", "CeleryExecutor"),
       Deferred("AIRFLOW__DATABASE__SQL_ALCHEMY_CONN",
                "postgresql+psycopg2://airflow:airflow@", "postgres_container", ":5432/airflow"),
       Deferred("AIRFLOW__CELERY__RESULT_BACKEND",
                "db+postgresql://airflow:airflow@", "postgres_container", ":5432/airflow"),
       Lit("AIRFLOW__CELERY__BROKER_URL", "redis://:@redis:6379/0"),
       Lit("AIRFLOW__CORE__DAGS_ARE_PAUSED_AT_CREATION", "true"),
       Lit("AIRFLOW__API__AUTH_BACKENDS",
           "airflow.api.auth.backend.basic_auth,airflow.api.auth.backend.session"),
       Bare("AIRFLOW__WEBSERVER__SECRET_KEY:false") >>

CommonEnvs(aws_region) ==
    << Lit("AWS_REGION", aws_region),
       Deferred("S3_BUCKET_URL", "s3://", "s3_bucket_obj", ""),
       Deferred("AWS_ACCESS_KEY", "", "s3_acces_key_obj", ""),
       Deferred("AWS_SECRETS_TOKEN", "", "s3_acces_key_obj", ""),
       Lit("AIRFLOW__CORE__EXECUTOR", "CeleryExecutor"),
       Deferred("AIRFLOW__DATABASE__SQL_ALCHEMY_CONN",
                "postgresql+psycopg2://airflow:airflow@", "postgres_container", ":5432/airflow"),
       Deferred("AIRFLOW__CELERY__RESULT_BACKEND",
                "db+postgresql://airflow:airflow@", "postgres_container", ":5432/airflow"),
       Deferred("AIRFLOW__CELERY__BROKER_URL", "redis://:@", "redis_container", ":6379/0"),
       Lit("AIRFLOW__CORE__DAGS_ARE_PAUSED_AT_CREATION", "true"),
       Lit("AIRFLOW__API__AUTH_BACKENDS",
           "airflow.api.auth.backend.basic_auth,airflow.api.auth.backend.session"),
       Bare("AIRFLOW__WEBSERVER__SECRET_KEY:false") >>

InitExtraEnvs ==
    << Lit("_AIRFLOW_WWW_USER_CREATE", "true"),
       Lit("_AIRFLOW_WWW_USER_USERNAME", "airflow"),
       Lit("_AIRFLOW_WWW_USER_PASSWORD", "airflow") >>

WorkerExtraEnvs == << Lit("DUMB_INIT_SETSID", "0") >>

SchedulerExtraEnvs == << Deferred("DB_HOST", "", "redis_container", "") >>

PostgresEnvs ==
    << Lit("POSTGRES_PASSWORD", "airflow"),
       Lit("POSTGRES_USER", "airflow"),
       Lit("POSTGRES_DB", "airflow") >>

-----------------------------------------------------------------------------
(* Arguments of each resource, as the constructor call passes them.        *)
(* image / networks / volumes hold the resources whose Output the argument *)
(* reads; depends_on is opts=ResourceOptions(depends_on=[...]).            *)

Plain(n) ==
    [image |-> {}, networks |-> {}, volumes |-> {}, envs |-> <<>>,
     restart |-> "", depends_on |-> {}, name |-> n]

Container(image, volumes, envs, restart, depends_on) ==
    [image |-> {image}, networks |-> {"network"}, volumes |-> volumes, envs |-> envs,
     restart |-> restart, depends_on |-> depends_on, name |-> <<>>]

PostgresContainer ==
    [Container("postgres_remote_image", {"postgres_volume"}, PostgresEnvs, "unless-stopped", {})
        EXCEPT !.name = <<"airflow_postgres">>]

RedisContainer ==
    Container("redis_image", {}, <<>>, "unless-stopped", {})

\* airflow-init made to wait for the webserver as well
AirflowInitAfterWebserver(common) ==
    Container("airflow_image", {}, common \o InitExtraEnvs, "on-failure",
              {"postgres_container", "airflow_webserver"})

AirflowInit(common) ==
    Container("airflow_image", {}, common \o InitExtraEnvs, "on-failure",
              {"postgres_container"})

\* the webserver handed the list airflow-init extended in place
AirflowWebserverSharedList(common) ==
    Container("airflow_image", {}, common \o InitExtraEnvs, "unless-stopped",
              {"airflow_init", "postgres_container"})

AirflowWebserver(common) ==
    Container("airflow_image", {}, common, "unless-stopped",
              {"airflow_init", "postgres_container"})

AirflowCeleryWorker(common) ==
    Container("airflow_image", {}, common \o WorkerExtraEnvs, "unless-stopped", {})

\* the scheduler without its edge on the Cache
AirflowSchedulerInitOnly(common) ==
    Container("airflow_image", {}, common \o SchedulerExtraEnvs, "unless-stopped",
              {"airflow_init"})

AirflowScheduler(common) ==
    Container("airflow_image", {}, common \o SchedulerExtraEnvs, "unless-stopped",
              {"airflow_init", "redis_container"})

AirflowTriggerer(common) ==
    Container("airflow_image", {}, common, "unless-stopped",
              {"airflow_init", "postgres_container"})

\* flower given its image as a plain string instead of airflow_image.name
AirflowFlowerLiteralImage(common) ==
    [Container("airflow_image", {}, common, "unless-stopped", {}) EXCEPT !.image = {}]

AirflowFlower(common) ==
    Container("airflow_image", {}, common, "unless-stopped", {})

ArgsOf(r, common, airflow_version) ==
    CASE r = "network"               -> Plain(<<>>)
      [] r = "postgres_remote_image" -> Plain(<<"postgres:16-bookworm">>)
      [] r = "postgres_volume"       -> Plain(<<>>)
      [] r = "postgres_container"    -> PostgresContainer
      [] r = "redis_image"           -> Plain(<<"redis:7.2-bookworm">>)
      [] r = "redis_container"       -> RedisContainer
      [] r = "airflow_image"         -> Plain(<<"apache/airflow:", airflow_version>>)
      [] r = "airflow_init"          -> AirflowInit(common)
      [] r = "airflow_webserver"     -> AirflowWebserver(common)
      [] r = "airflow_celery_worker" -> AirflowCeleryWorker(common)
      [] r = "airflow_scheduler"     -> AirflowScheduler(common)
      [] r = "airflow_triggerer"     -> AirflowTriggerer(common)
      [] r = "airflow_flower"        -> AirflowFlower(common)

\* the key pulumi.export is called with right after the resource is constructed
ExportsOf(r) ==
    CASE r = "network"               -> {"local-airflow-v1-network"}
      [] r = "redis_container"       -> {"postgres_container_id", "redis_container_id"}
      [] r = "airflow_webserver"     -> {"airflow-webserver-name"}
      [] r = "airflow_celery_worker" -> {"airflow-celery-worker-name"}
      [] r = "airflow_scheduler"     -> {"airflow-worker-scheduler"}
      [] r = "airflow_triggerer"     -> {"airflow-worker-triggerer"}
      [] OTHER                       -> {}

-----------------------------------------------------------------------------
(* The driver: the module-level statements and the two functions they      *)
(* call, in execution order.                                               *)

Program ==
    << [op |-> "require", key |-> "awsregion"],
       [op |-> "require", key |-> "airflowversion"],
       [op |-> "new", res |-> "network"],
       [op |-> "invoke", name |-> "postgres:16-bookworm"],
       [op |-> "new", res |-> "postgres_remote_image"],
       [op |-> "new", res |-> "postgres_volume"],
       [op |-> "new", res |-> "postgres_container"],
       [op |-> "new", res |-> "redis_image"],
       [op |-> "new", res |-> "redis_container"],
       [op |-> "new", res |-> "airflow_image"],
       [op |-> "envs"],
       [op |-> "new", res |-> "airflow_init"],
       [op |-> "new", res |-> "airflow_webserver"],
       [op |-> "new", res |-> "airflow_celery_worker"],
       [op |-> "new", res |-> "airflow_scheduler"],
       [op |-> "new", res |-> "airflow_triggerer"],
       [op |-> "new", res |-> "airflow_flower"] >>

Running == halted = "no" /\ pc \in 1..Len(Program)

constructed == DOMAIN args

Init ==
    /\ config \in [awsregion : RegionValues, airflowversion : VersionValues]
    /\ pc = 1
    /\ halted = "no"
    /\ common_envs = <<>>
    /\ args = <<>>
    /\ exports = {}
    /\ created = {}
    /\ failed = {}
    /\ initPc = 0
    /\ initLog = <<>>
    /\ status = "0"
    /\ checkStatus = NoStatus
    /\ initExit = NoStatus
    /\ restarts = 0

\* config.get(key): goes on with no value when the key is not set
Get ==
    /\ Running
    /\ Program[pc].op = "require"
    /\ pc' = pc + 1
    /\ UNCHANGED <<config, halted, common_envs, args, exports>>
    /\ UNCHANGED engineVars
    /\ UNCHANGED initVars

\* config.require(key): raises when the key is not set
Require ==
    /\ Running
    /\ Program[pc].op = "require"
    /\ IF config[Program[pc].key] = Absent
         THEN halted' = "ConfigMissingError" /\ pc' = pc
         ELSE halted' = halted /\ pc' = pc + 1
    /\ UNCHANGED <<config, common_envs, args, exports>>
    /\ UNCHANGED engineVars
    /\ UNCHANGED initVars

\* docker.get_registry_image(name=...): a call to the registry made while the
\* driver runs, which returns the image or raises
GetRegistryImage ==
    /\ Running
    /\ Program[pc].op = "invoke"
    /\ \E ok \in BOOLEAN :
         IF ok THEN halted' = halted /\ pc' = pc + 1
               ELSE halted' = "InvokeError" /\ pc' = pc
    /\ UNCHANGED <<config, common_envs, args, exports>>
    /\ UNCHANGED engineVars
    /\ UNCHANGED initVars

\* common_envs = [...]
ComposeEnvs ==
    /\ Running
    /\ Program[pc].op = "envs"
    /\ common_envs' = CommonEnvs(config.awsregion)
    /\ pc' = pc + 1
    /\ UNCHANGED <<config, halted, args, exports>>
    /\ UNCHANGED engineVars
    /\ UNCHANGED initVars

\* docker.Network(...), docker.RemoteImage(...), docker.Volume(...),
\* docker.Container(...), each followed by its pulumi.export calls
New ==
    /\ Running
    /\ Program[pc].op = "new"
    /\ LET r == Program[pc].res IN
         /\ args' = (r :> ArgsOf(r, common_envs, config.airflowversion)) @@ args
         /\ exports' = exports \cup ExportsOf(r)
    /\ pc' = pc + 1
    /\ UNCHANGED <<config, halted, common_envs>>
    /\ UNCHANGED engineVars
    /\ UNCHANGED initVars

-----------------------------------------------------------------------------
(* The provisioning engine *)

\* the resources read by the deferred entries of an environment list
EnvSources(envs) == {envs[i].src : i \in DOMAIN envs} \ {NoSrc}

\* the resources whose Outputs appear among a resource's inputs
Inputs(a) == a.image \cup a.networks \cup a.volumes \cup EnvSources(a.envs)

\* the engine ordering resources by the Outputs they read alone
DepsInputsOnly(a) == Inputs(a)

\* everything that must exist before the resource is handed to the engine
Deps(a) == a.depends_on \cup Inputs(a)

DepsOf(r) == IF r \in constructed THEN Deps(args[r]) ELSE {}

Ready(r) ==
    /\ r \in constructed \cup External
    /\ r \notin created \cup failed
    /\ DepsOf(r) \subseteq created

Create(r) ==
    /\ Ready(r)
    /\ created' = created \cup {r}
    /\ failed' = failed
    /\ UNCHANGED driverVars
    /\ UNCHANGED initVars

Fail(r) ==
    /\ Ready(r)
    /\ failed' = failed \cup {r}
    /\ created' = created
    /\ UNCHANGED driverVars
    /\ UNCHANGED initVars

-----------------------------------------------------------------------------
(* The container runtime running airflow-init's script (bash -c, no set -e) *)

\* the script with its last command run as a child instead of exec'd
InitScriptNoExec ==
    << [cmd |-> "resource_warnings", exec |-> FALSE],
       [cmd |-> "mkdir",             exec |-> FALSE],
       [cmd |-> "chown",             exec |-> FALSE],
       [cmd |-> "db_version",        exec |-> FALSE],
       [cmd |-> "db_init",           exec |-> FALSE],
       [cmd |-> "db_migrate",        exec |-> FALSE],
       [cmd |-> "db_check",          exec |-> FALSE],
       [cmd |-> "echo_finished",     exec |-> FALSE] >>

InitScript ==
    << [cmd |-> "resource_warnings", exec |-> FALSE],
       [cmd |-> "mkdir",             exec |-> FALSE],
       [cmd |-> "chown",             exec |-> FALSE],
       [cmd |-> "db_version",        exec |-> FALSE],
       [cmd |-> "db_init",           exec |-> FALSE],
       [cmd |-> "db_migrate",        exec |-> FALSE],
       [cmd |-> "db_check",          exec |-> TRUE],
       [cmd |-> "echo_finished",     exec |-> FALSE] >>

\* the container is started when the engine creates it
InitStart ==
    /\ "airflow_init" \in created
    /\ initPc = 0
    /\ initExit = NoStatus
    /\ initPc' = 1
    /\ UNCHANGED <<initLog, status, checkStatus, initExit, restarts>>
    /\ UNCHANGED driverVars
    /\ UNCHANGED engineVars

\* one command of the script: it succeeds or fails, and the shell goes on to
\* the next line whatever the status; an exec'd command replaces the shell,
\* so its status is the container's; running off the end exits with $?
InitStep ==
    /\ initPc \in 1..Len(InitScript)
    /\ \E s \in {"0", "1"} :
         LET c == InitScript[initPc] IN
           /\ status' = s
           /\ initLog' = Append(initLog, c.cmd)
           /\ checkStatus' = IF c.cmd = "db_check" THEN s ELSE checkStatus
           /\ IF c.exec \/ initPc = Len(InitScript)
                THEN initPc' = 0 /\ initExit' = s
                ELSE initPc' = initPc + 1 /\ initExit' = initExit
    /\ UNCHANGED restarts
    /\ UNCHANGED driverVars
    /\ UNCHANGED engineVars

\* restart = "on-failure": the runtime starts the container again after a
\* non-zero exit
InitRestart ==
    /\ "airflow_init" \in created
    /\ args["airflow_init"].restart = "on-failure"
    /\ initExit \notin {NoStatus, "0"}
    /\ restarts < MaxRestarts
    /\ restarts' = restarts + 1
    /\ initPc' = 1
    /\ initLog' = <<>>
    /\ checkStatus' = NoStatus
    /\ initExit' = NoStatus
    /\ UNCHANGED status
    /\ UNCHANGED driverVars
    /\ UNCHANGED engineVars

-----------------------------------------------------------------------------

Next ==
    \/ Require
    \/ GetRegistryImage
    \/ ComposeEnvs
    \/ New
    \/ \E r \in Resources : Create(r)
    \/ \E r \in Resources : Fail(r)
    \/ InitStart
    \/ InitStep
    \/ InitRestart

Spec == Init /\ [][Next]_vars

-----------------------------------------------------------------------------
(* Properties *)

\* resources handed to the engine so far, whatever came of it
Submitted == created \cup failed

\* the edges a constructed resource carries: its depends_on and the
\* resources its arguments read
Edges(r) ==
    IF r \in constructed
      THEN args[r].depends_on \cup args[r].image \cup args[r].networks
             \cup args[r].volumes \cup EnvSources(args[r].envs)
      ELSE {}

RECURSIVE Closure(_)
Closure(S) ==
    LET T == S \cup UNION {Edges(x) : x \in S}
    IN IF T = S THEN S ELSE Closure(T)

\* everything a resource depends on, directly or not
Upstream(r) == Closure(Edges(r))

Backing == {"postgres_container", "redis_container"}

AllConstructed == constructed = Declared

\* C1: every long-running application container carries an explicit
\* depends_on edge on airflow-init, and none of them is created before
\* airflow-init has been created.
C1_LongRunningWaitForInit ==
    \A c \in LongRunning :
        /\ c \in constructed => "airflow_init" \in args[c].depends_on
        /\ c \in created => "airflow_init" \in created

\* C2: the graph of all dependency edges (depends_on and references to the
\* network, images, volume and container names) has no cycle; the driver
\* constructs a resource only after every target of its edges, and the engine
\* is handed a resource only after every target of its edges was created.
C2_AcyclicAndOrdered ==
    /\ \A r \in constructed : r \notin Upstream(r)
    /\ \A r \in constructed : Edges(r) \subseteq constructed \cup External
    /\ \A r \in Submitted : Edges(r) \subseteq created

C2_Witness ==
    /\ AllConstructed
    /\ Containers \subseteq created

\* C3: airflow-init's bootstrap sequence has run to its end before the
\* webserver is handed to the engine, and while airflow-init has exited with
\* a non-zero status the webserver is not among the created resources.
C3_InitGatesWebserver ==
    /\ "airflow_webserver" \in Submitted => (initExit # NoStatus \/ restarts > 0)
    /\ initExit \notin {NoStatus, "0"} => "airflow_webserver" \notin created

\* C4: with the region or the version not set, the driver raises at its
\* require statement: it never reaches the network's constructor, so no
\* resource of the driver is constructed, exported or created.
C4_MissingConfigBeforeNetwork ==
    (config.awsregion = Absent \/ config.airflowversion = Absent) =>
        /\ Program[pc].op = "require"
        /\ constructed = {}
        /\ exports = {}
        /\ Submitted \cap Declared = {}
        /\ halted \in {"no", "ConfigMissingError"}

C4_Witness ==
    /\ config.awsregion # Absent
    /\ config.airflowversion = Absent
    /\ halted = "ConfigMissingError"
    /\ External \subseteq created

\* C5: once the application image has failed to resolve, none of the six
\* containers that use it is ever handed to the engine.
C5_ImageFailureBlocksApplication ==
    "airflow_image" \in failed => ApplicationContainers \cap Submitted = {}

C5_Witness ==
    /\ "airflow_image" \in failed
    /\ AllConstructed
    /\ Backing \cup External \cup {"network"} \subseteq created

Keys(envs) == {envs[i].key : i \in DOMAIN envs}

Entries(envs) == {envs[i] : i \in DOMAIN envs}

\* the entries of a container's list after the shared prefix
Extra(c) == SubSeq(args[c].envs, Len(common_envs) + 1, Len(args[c].envs))

\* C7: every application container's environment list starts with the shared
\* bundle, entry for entry; what follows the prefix reuses no key of the
\* prefix, and appears in no other application container's list.
C7_SharedPrefix ==
    \A c \in ApplicationContainers \cap constructed :
        /\ common_envs # <<>>
        /\ Len(args[c].envs) >= Len(common_envs)
        /\ SubSeq(args[c].envs, 1, Len(common_envs)) = common_envs
        /\ Keys(Extra(c)) \cap Keys(common_envs) = {}
        /\ \A d \in (ApplicationContainers \cap constructed) \ {c} :
               Entries(Extra(c)) \cap Entries(args[d].envs) = {}

C7_Witness ==
    /\ AllConstructed
    /\ Extra("airflow_init") # <<>>
    /\ Extra("airflow_celery_worker") # <<>>
    /\ Extra("airflow_scheduler") # <<>>

\* C8 as stated: besides airflow-init, the scheduler names the Database and
\* the triggerer names the Cache in depends_on.
C8_SchedulerDatabaseTriggererCache ==
    /\ "airflow_scheduler" \in constructed =>
           {"airflow_init", "postgres_container"} \subseteq args["airflow_scheduler"].depends_on
    /\ "airflow_triggerer" \in constructed =>
           {"airflow_init", "redis_container"} \subseteq args["airflow_triggerer"].depends_on

\* C8 amended: besides airflow-init, the scheduler names the Cache and the
\* triggerer names the Database in depends_on.
C8_SchedulerCacheTriggererDatabase ==
    /\ "airflow_scheduler" \in constructed =>
           args["airflow_scheduler"].depends_on = {"airflow_init", "redis_container"}
    /\ "airflow_triggerer" \in constructed =>
           args["airflow_triggerer"].depends_on = {"airflow_init", "postgres_container"}

C8_Witness ==
    /\ {"airflow_scheduler", "airflow_triggerer"} \subseteq created

BootstrapOrder == <<"chown", "db_version", "db_init", "db_migrate", "db_check">>

RECURSIVE Bootstrap(_)
\* the commands of a log that belong to the bootstrap sequence, in log order
Bootstrap(log) ==
    IF log = <<>> THEN <<>>
    ELSE IF \E i \in DOMAIN BootstrapOrder : BootstrapOrder[i] = Head(log)
           THEN <<Head(log)>> \o Bootstrap(Tail(log))
           ELSE Bootstrap(Tail(log))

C10_ApplicationAfterBacking ==
    \A c \in ApplicationContainers :
        /\ c \in constructed => Backing \subseteq EnvSources(args[c].envs)
        /\ c \in Submitted => Backing \subseteq created

C10_Witness ==
    /\ {"airflow_celery_worker", "airflow_flower", "airflow_webserver"} \subseteq created
    /\ "airflow_init" \in created

====
